---- MODULE Spec2Model ----
(***************************************************************************)
(* A model of the directed-graph class of src/25-08-29/graphen.py.         *)
(*                                                                         *)
(* A Graph holds one attribute, _graph, a Python dict from Vertex to a     *)
(* list of Vertex.  A dict is an insertion-ordered mapping, so it is       *)
(* modelled as the sequence of its items, each item a record               *)
(* [key, targets]; the keys of the items are pairwise distinct.  A Vertex  *)
(* is equal to another exactly when their ids are equal (__eq__, __hash__),*)
(* so a vertex is modelled by its id.                                      *)
(*                                                                         *)
(* A call either returns a value or raises; its outcome is a record        *)
(* [st |-> "ok", val |-> v] or [st |-> "KeyError"] / [st |-> "IndexError"].*)
(***************************************************************************)
EXTENDS Integers, Sequences, FiniteSets, TLC

\* The vertex ids the callers use.
Vertices == {"A", "B", "C"}

\* Bound on the total number of neighbor-list entries of a graph.
MaxEdges == 3

VARIABLES
    graph,   \* Graph._graph: the sequence of items of the dict
    call,    \* the most recent call on the Graph: [op, args]
    ret      \* the outcome of that call

vars == <<graph, call, ret>>

----------------------------------------------------------------------------
(* Outcomes of a call *)

Ok(v) == [st |-> "ok", val |-> v]

Raise(e) == [st |-> e]

----------------------------------------------------------------------------
(* Python dict and list primitives on the items sequence *)

\* `v in self._graph` : dict.__contains__
Contains(g, v) == \E i \in 1..Len(g) : g[i].key = v

\* `self._graph[v]` for a key v : dict.__getitem__ (raises KeyError otherwise;
\* every use below tests Contains first and raises there)
GetItem(g, v) == g[CHOOSE i \in 1..Len(g) : g[i].key = v].targets

\* `list(self._graph.keys())`
KeysOf(g) == [i \in 1..Len(g) |-> g[i].key]

\* `x in lst` : list.__contains__ (Vertex.__eq__ compares ids)
In(x, lst) == \E i \in 1..Len(lst) : lst[i] = x

\* `lst[::-1]`
Reverse(lst) == [i \in 1..Len(lst) |-> lst[Len(lst) + 1 - i]]

\* the (vertex, target) pairs in the order the generator
\* `for vertex, vertices in self._graph.items() for target in vertices` yields them
RECURSIVE EdgeList(_)
EdgeList(g) ==
    IF Len(g) = 0 THEN <<>>
    ELSE [j \in 1..Len(Head(g).targets) |->
              [vertex |-> Head(g).key, target |-> Head(g).targets[j]]]
         \o EdgeList(Tail(g))

----------------------------------------------------------------------------
(* Graph.exist_vertex, exist_edge, get_all_edges, get_degree *)

exist_vertex(g, vertex) == Ok(Contains(g, vertex))

\* variant: the end vertex is looked up as a key too
exist_edge_EndLookedUp(g, start_vertex, end_vertex) ==
    IF ~Contains(g, start_vertex) \/ ~Contains(g, end_vertex) THEN Raise("KeyError")
    ELSE Ok(In(end_vertex, GetItem(g, start_vertex)))

exist_edge(g, start_vertex, end_vertex) ==
    IF ~Contains(g, start_vertex) THEN Raise("KeyError")
    ELSE Ok(In(end_vertex, GetItem(g, start_vertex)))

get_all_edges(g, vertex) ==
    IF ~Contains(g, vertex) THEN Raise("KeyError")
    ELSE Ok(GetItem(g, vertex))

\* sum(1 for other_vertex, targets in items for target in targets if target == vertex)
RECURSIVE InDegree(_, _, _)
InDegree(edges, i, vertex) ==
    IF i > Len(edges) THEN 0
    ELSE (IF edges[i].target = vertex THEN 1 ELSE 0) + InDegree(edges, i + 1, vertex)

\* variant: the in-degree counts entries of the other vertices' lists only
RECURSIVE InDegreeFromOthers(_, _, _)
InDegreeFromOthers(edges, i, vertex) ==
    IF i > Len(edges) THEN 0
    ELSE (IF edges[i].target = vertex /\ edges[i].vertex # vertex THEN 1 ELSE 0)
             + InDegreeFromOthers(edges, i + 1, vertex)

get_degree_FromOthers(g, vertex) ==
    IF ~Contains(g, vertex) THEN Raise("KeyError")
    ELSE Ok(Len(GetItem(g, vertex)) + InDegreeFromOthers(EdgeList(g), 1, vertex))

\* variant: the in-degree counts the vertices with an edge to `vertex`, not
\* the entries
get_degree_DistinctSources(g, vertex) ==
    IF ~Contains(g, vertex) THEN Raise("KeyError")
    ELSE LET edges == EdgeList(g)
         IN  Ok(Len(GetItem(g, vertex))
                    + Cardinality({edges[i].vertex : i \in {j \in 1..Len(edges) :
                                                              edges[j].target = vertex}}))

get_degree(g, vertex) ==
    IF ~Contains(g, vertex) THEN Raise("KeyError")
    ELSE LET out_degree == Len(GetItem(g, vertex))
             in_degree  == InDegree(EdgeList(g), 1, vertex)
         IN  Ok(out_degree + in_degree)

----------------------------------------------------------------------------
(* The relation predicates.  Each is all(<generator>): the generator's       *)
(* elements are evaluated in order, all() returns False at the first false  *)
(* element, and an element whose evaluation raises ends the call with that  *)
(* exception.                                                               *)

\* all(vertex in vertices for vertex, vertices in self._graph.items())
is_reflexive(g) == Ok(\A i \in 1..Len(g) : In(g[i].key, g[i].targets))

\* variant: the reverse edge is asked for as many times as the edge occurs
RECURSIVE SymmetricFrom_SameCount(_, _, _)
SymmetricFrom_SameCount(g, edges, i) ==
    IF i > Len(edges) THEN Ok(TRUE)
    ELSE IF ~Contains(g, edges[i].target) THEN Raise("KeyError")
    ELSE LET back  == GetItem(g, edges[i].target)
             forth == GetItem(g, edges[i].vertex)
         IN  IF Cardinality({j \in 1..Len(back) : back[j] = edges[i].vertex})
                    # Cardinality({j \in 1..Len(forth) : forth[j] = edges[i].target})
             THEN Ok(FALSE)
             ELSE SymmetricFrom_SameCount(g, edges, i + 1)

\* all(vertex in self._graph[target] for vertex, vertices in items for target in vertices)
RECURSIVE SymmetricFrom(_, _, _)
SymmetricFrom(g, edges, i) ==
    IF i > Len(edges) THEN Ok(TRUE)
    ELSE IF ~Contains(g, edges[i].target) THEN Raise("KeyError")
    ELSE IF ~In(edges[i].vertex, GetItem(g, edges[i].target)) THEN Ok(FALSE)
    ELSE SymmetricFrom(g, edges, i + 1)

is_symmetric(g) == SymmetricFrom(g, EdgeList(g), 1)

\* variant: without `target == vertex or`, a self-loop is tested like any edge
RECURSIVE AntisymmetricFrom_LoopsTested(_, _, _)
AntisymmetricFrom_LoopsTested(g, edges, i) ==
    IF i > Len(edges) THEN Ok(TRUE)
    ELSE IF ~Contains(g, edges[i].target) THEN Raise("KeyError")
    ELSE IF In(edges[i].vertex, GetItem(g, edges[i].target)) THEN Ok(FALSE)
    ELSE AntisymmetricFrom_LoopsTested(g, edges, i + 1)

\* all(target == vertex or vertex not in self._graph[target] for ... for target in vertices)
RECURSIVE AntisymmetricFrom(_, _, _)
AntisymmetricFrom(g, edges, i) ==
    IF i > Len(edges) THEN Ok(TRUE)
    ELSE IF edges[i].target = edges[i].vertex THEN AntisymmetricFrom(g, edges, i + 1)
    ELSE IF ~Contains(g, edges[i].target) THEN Raise("KeyError")
    ELSE IF In(edges[i].vertex, GetItem(g, edges[i].target)) THEN Ok(FALSE)
    ELSE AntisymmetricFrom(g, edges, i + 1)

is_antisymmetric(g) == AntisymmetricFrom(g, EdgeList(g), 1)

\* all(t_target in vertices for vertex, vertices in items for target in vertices
\*                          for t_target in self._graph[target])
RECURSIVE TransitiveFrom(_, _, _)
TransitiveFrom(g, edges, i) ==
    IF i > Len(edges) THEN Ok(TRUE)
    ELSE IF ~Contains(g, edges[i].target) THEN Raise("KeyError")
    ELSE LET vertices  == GetItem(g, edges[i].vertex)
             t_targets == GetItem(g, edges[i].target)
         IN  IF \E j \in 1..Len(t_targets) : ~In(t_targets[j], vertices) THEN Ok(FALSE)
             ELSE TransitiveFrom(g, edges, i + 1)

is_transitive(g) == TransitiveFrom(g, EdgeList(g), 1)

----------------------------------------------------------------------------
(* Graph.has_euler_circle and Graph.find_euler_circle *)

\* all(self.get_degree(v) % 2 == 0 for v in self._graph); v is a key, so
\* get_degree(v) returns
has_euler_circle(g) == Ok(\A i \in 1..Len(g) : get_degree(g, g[i].key).val % 2 = 0)

\* variant: `vertices[-1]`, the entry is read and not removed
PopLast_KeepsEntry(work, vertex) == work

\* `vertices.pop()` on the working copy's list of `vertex`
PopLast(work, vertex) ==
    [i \in 1..Len(work) |->
        IF work[i].key = vertex
        THEN [work[i] EXCEPT !.targets = SubSeq(@, 1, Len(@) - 1)]
        ELSE work[i]]

\* variant: `graph.get(vertex, [])`, a vertex that is not a key is taken to
\* have no edges left
RECURSIVE EulerLoop_MissingKeyAsEmpty(_, _, _)
EulerLoop_MissingKeyAsEmpty(work, stack, solution) ==
    IF Len(stack) = 0 THEN Ok(Reverse(solution))
    ELSE LET vertex   == stack[Len(stack)]
             vertices == IF Contains(work, vertex) THEN GetItem(work, vertex) ELSE <<>>
         IN  IF Len(vertices) > 0
             THEN EulerLoop_MissingKeyAsEmpty(PopLast(work, vertex),
                                              Append(stack, vertices[Len(vertices)]),
                                              solution)
             ELSE EulerLoop_MissingKeyAsEmpty(work,
                                              SubSeq(stack, 1, Len(stack) - 1),
                                              Append(solution, vertex))

\* variant: `return solution`, the pop order is returned as it is
RECURSIVE EulerLoop_NotReversed(_, _, _)
EulerLoop_NotReversed(work, stack, solution) ==
    IF Len(stack) = 0 THEN Ok(solution)
    ELSE LET vertex == stack[Len(stack)]
         IN  IF ~Contains(work, vertex) THEN Raise("KeyError")
             ELSE LET vertices == GetItem(work, vertex)
                  IN  IF Len(vertices) > 0
                      THEN EulerLoop_NotReversed(PopLast(work, vertex),
                                                 Append(stack, vertices[Len(vertices)]),
                                                 solution)
                      ELSE EulerLoop_NotReversed(work,
                                                 SubSeq(stack, 1, Len(stack) - 1),
                                                 Append(solution, vertex))

\* the `while stack:` loop and the final `return solution[::-1]`
RECURSIVE EulerLoop(_, _, _)
EulerLoop(work, stack, solution) ==
    IF Len(stack) = 0 THEN Ok(Reverse(solution))
    ELSE LET vertex == stack[Len(stack)]
         IN  IF ~Contains(work, vertex) THEN Raise("KeyError")
             ELSE LET vertices == GetItem(work, vertex)
                  IN  IF Len(vertices) > 0
                      THEN EulerLoop(PopLast(work, vertex),
                                     Append(stack, vertices[Len(vertices)]),
                                     solution)
                      ELSE EulerLoop(work,
                                     SubSeq(stack, 1, Len(stack) - 1),
                                     Append(solution, vertex))

\* variant: a graph without edges is answered with the empty list
find_euler_circle_EmptyWithoutEdges(g) ==
    IF ~has_euler_circle(g).val \/ Len(EdgeList(g)) = 0 THEN Ok(<<>>)
    ELSE EulerLoop(g, <<KeysOf(g)[1]>>, <<>>)

\* variant: `list(graph.keys())[-1]`, the walk starts at the last key
find_euler_circle_StartsAtLastKey(g) ==
    IF ~has_euler_circle(g).val THEN Ok(<<>>)
    ELSE IF Len(KeysOf(g)) = 0 THEN Raise("IndexError")
    ELSE EulerLoop(g, <<KeysOf(g)[Len(g)]>>, <<>>)

\* `list(graph.keys())[0]` raises IndexError on an empty dict
find_euler_circle(g) ==
    IF ~has_euler_circle(g).val THEN Ok(<<>>)
    ELSE IF Len(KeysOf(g)) = 0 THEN Raise("IndexError")
    ELSE LET start_vertex == KeysOf(g)[1]
         IN  EulerLoop(g, <<start_vertex>>, <<>>)

(* What find_euler_circle does to self._graph.  The list objects are        *)
(* numbered: the neighbor list of the i-th item of self._graph is object i. *)

\* variant: `{k: v for k, v in self._graph.items()}`, the working dict holds
\* the lists of self._graph themselves
WorkingLists_Shared(g) == [i \in 1..Len(g) |-> i]

\* `graph = {k: v.copy() for k, v in self._graph.items()}`: the list of the
\* i-th item of the working dict is a new object, Len(g) + i
WorkingLists(g) == [i \in 1..Len(g) |-> Len(g) + i]

\* the contents of the list objects when the loop starts
ListContents(g) == [o \in 1..(2 * Len(g)) |-> g[((o - 1) % Len(g)) + 1].targets]

\* the contents of the list objects when the `while stack:` loop has ended
\* or raised; `lists` gives the list object of each item of the working dict
RECURSIVE EulerLoopLists(_, _, _, _)
EulerLoopLists(g, lists, contents, stack) ==
    IF Len(stack) = 0 THEN contents
    ELSE LET vertex == stack[Len(stack)]
         IN  IF ~Contains(g, vertex) THEN contents
             ELSE LET o        == lists[CHOOSE i \in 1..Len(g) : g[i].key = vertex]
                      vertices == contents[o]
                  IN  IF Len(vertices) > 0
                      THEN EulerLoopLists(g, lists,
                               [contents EXCEPT ![o] = SubSeq(@, 1, Len(@) - 1)],
                               Append(stack, vertices[Len(vertices)]))
                      ELSE EulerLoopLists(g, lists, contents,
                               SubSeq(stack, 1, Len(stack) - 1))

\* self._graph when find_euler_circle has ended
GraphAfterFindEulerCircle(g) ==
    IF ~has_euler_circle(g).val \/ Len(g) = 0 THEN g
    ELSE LET contents == EulerLoopLists(g, WorkingLists(g), ListContents(g), <<g[1].key>>)
         IN  [i \in 1..Len(g) |-> [key |-> g[i].key, targets |-> contents[i]]]

----------------------------------------------------------------------------
(* Graph.find_hamilton_circle *)

RemoveAt(s, i) == SubSeq(s, 1, i - 1) \o SubSeq(s, i + 1, Len(s))

\* itertools.permutations(s): the orderings of s, in lexicographic order of
\* the positions in s
RECURSIVE permutations(_)
RECURSIVE PermutationsFrom(_, _)
PermutationsFrom(s, i) ==
    IF i > Len(s) THEN <<>>
    ELSE LET rest == permutations(RemoveAt(s, i))
         IN  [k \in 1..Len(rest) |-> <<s[i]>> \o rest[k]] \o PermutationsFrom(s, i + 1)

permutations(s) == IF Len(s) = 0 THEN << <<>> >> ELSE PermutationsFrom(s, 1)

\* variant: range(len(vertexes)-2), the last step of the chain is not tested
ChainHolds_OneShort(g, permutation) ==
    \A i \in 1..(Len(permutation) - 2) : In(permutation[i + 1], GetItem(g, permutation[i]))

\* all(permutation[i+1] in self._graph[permutation[i]] for i in range(len(vertexes)-1))
ChainHolds(g, permutation) ==
    \A i \in 1..(Len(permutation) - 1) : In(permutation[i + 1], GetItem(g, permutation[i]))

\* variant: the closing edge from the last element to the first is not tested
RECURSIVE HamiltonFrom_NoClosingEdge(_, _, _)
HamiltonFrom_NoClosingEdge(g, perms, k) ==
    IF k > Len(perms) THEN Ok(<<>>)
    ELSE IF ChainHolds(g, perms[k]) THEN Ok(perms[k])
    ELSE HamiltonFrom_NoClosingEdge(g, perms, k + 1)

\* variant: the permutations are tried from the last to the first
RECURSIVE HamiltonFrom_ReverseOrder(_, _, _)
HamiltonFrom_ReverseOrder(g, perms, k) ==
    IF k > Len(perms) THEN Ok(<<>>)
    ELSE LET permutation == perms[Len(perms) + 1 - k]
         IN  IF ~ChainHolds(g, permutation) THEN HamiltonFrom_ReverseOrder(g, perms, k + 1)
             ELSE IF Len(permutation) = 0 THEN Raise("IndexError")
             ELSE IF In(permutation[1], GetItem(g, permutation[Len(permutation)]))
                  THEN Ok(permutation)
             ELSE HamiltonFrom_ReverseOrder(g, perms, k + 1)

\* the `for permutation in ...` loop; `permutation[0]` raises IndexError on
\* the empty tuple, which is reached when the chain test holds
RECURSIVE HamiltonFrom(_, _, _)
HamiltonFrom(g, perms, k) ==
    IF k > Len(perms) THEN Ok(<<>>)
    ELSE LET permutation == perms[k]
         IN  IF ~ChainHolds(g, permutation) THEN HamiltonFrom(g, perms, k + 1)
             ELSE IF Len(permutation) = 0 THEN Raise("IndexError")
             ELSE IF In(permutation[1], GetItem(g, permutation[Len(permutation)]))
                  THEN Ok(permutation)
             ELSE HamiltonFrom(g, perms, k + 1)

find_hamilton_circle(g) ==
    LET vertexes == KeysOf(g)
    IN  HamiltonFrom(g, permutations(vertexes), 1)

----------------------------------------------------------------------------
(* Graph.__init__ and the mappings a Graph is constructed from *)

NumEdges(g) == Len(EdgeList(g))

\* `lst.append(w)` on the neighbor list of the i-th item
AppendTo(g, i, w) == [g EXCEPT ![i].targets = Append(@, w)]

\* the orderings of the subsets of Vertices: the possible key orders of a dict
KeyOrders ==
    {ks \in UNION {[1..m -> Vertices] : m \in 0..Cardinality(Vertices)} :
         \A i, j \in 1..Len(ks) : i # j => ks[i] # ks[j]}

\* the mappings with the keys in some order and every neighbor list empty
KeyMappings ==
    {[i \in 1..Len(ks) |-> [key |-> ks[i], targets |-> <<>>]] : ks \in KeyOrders}

NoCall == [op |-> "none", args |-> <<>>]

NoRet == [st |-> "none"]

\* Graph(mapping) stores the mapping itself and Graph() stores the empty dict.
\* The neighbor lists stay the caller's lists, which AppendEdge fills, so every
\* mapping of at most MaxEdges entries is the _graph of a reachable state.
Init ==
    /\ graph \in KeyMappings
    /\ call = NoCall
    /\ ret = NoRet

----------------------------------------------------------------------------
(* The calls.  The caller is sequential: it makes a call when it holds no    *)
(* outcome (call = NoCall), the call runs to its end, and the caller then    *)
(* goes on to its next statement (Discard).  A query leaves _graph as it is.*)

ExistVertex ==
    \E v \in Vertices :
        /\ call = NoCall
        /\ call' = [op |-> "exist_vertex", args |-> <<v>>]
        /\ ret' = exist_vertex(graph, v)
        /\ UNCHANGED graph

\* variant: the lookup is self._graph.setdefault(start_vertex, []), which
\* inserts a missing start vertex as a key
ExistEdge_InsertsKey ==
    \E u \in Vertices, v \in Vertices :
        /\ call = NoCall
        /\ call' = [op |-> "exist_edge", args |-> <<u, v>>]
        /\ ret' = IF Contains(graph, u) THEN exist_edge(graph, u, v) ELSE Ok(FALSE)
        /\ graph' = IF Contains(graph, u) THEN graph
                    ELSE Append(graph, [key |-> u, targets |-> <<>>])

ExistEdge ==
    \E u \in Vertices, v \in Vertices :
        /\ call = NoCall
        /\ call' = [op |-> "exist_edge", args |-> <<u, v>>]
        /\ ret' = exist_edge(graph, u, v)
        /\ UNCHANGED graph

GetAllEdges ==
    \E v \in Vertices :
        /\ call = NoCall
        /\ call' = [op |-> "get_all_edges", args |-> <<v>>]
        /\ ret' = get_all_edges(graph, v)
        /\ UNCHANGED graph

GetDegree ==
    \E v \in Vertices :
        /\ call = NoCall
        /\ call' = [op |-> "get_degree", args |-> <<v>>]
        /\ ret' = get_degree(graph, v)
        /\ UNCHANGED graph

IsReflexive ==
    /\ call = NoCall
    /\ call' = [op |-> "is_reflexive", args |-> <<>>]
    /\ ret' = is_reflexive(graph)
    /\ UNCHANGED graph

IsSymmetric ==
    /\ call = NoCall
    /\ call' = [op |-> "is_symmetric", args |-> <<>>]
    /\ ret' = is_symmetric(graph)
    /\ UNCHANGED graph

IsAntisymmetric ==
    /\ call = NoCall
    /\ call' = [op |-> "is_antisymmetric", args |-> <<>>]
    /\ ret' = is_antisymmetric(graph)
    /\ UNCHANGED graph

IsTransitive ==
    /\ call = NoCall
    /\ call' = [op |-> "is_transitive", args |-> <<>>]
    /\ ret' = is_transitive(graph)
    /\ UNCHANGED graph

HasEulerCircle ==
    /\ call = NoCall
    /\ call' = [op |-> "has_euler_circle", args |-> <<>>]
    /\ ret' = has_euler_circle(graph)
    /\ UNCHANGED graph

FindEulerCircle ==
    /\ call = NoCall
    /\ call' = [op |-> "find_euler_circle", args |-> <<>>]
    /\ ret' = find_euler_circle(graph)
    /\ graph' = GraphAfterFindEulerCircle(graph)

FindHamiltonCircle ==
    /\ call = NoCall
    /\ call' = [op |-> "find_hamilton_circle", args |-> <<>>]
    /\ ret' = find_hamilton_circle(graph)
    /\ UNCHANGED graph

\* a caller appends to a neighbor list it holds a reference to (the list it
\* passed to Graph(...), or the one get_all_edges returned)
AppendEdge ==
    /\ call = NoCall
    /\ NumEdges(graph) < MaxEdges
    /\ \E i \in 1..Len(graph), w \in Vertices : graph' = AppendTo(graph, i, w)
    /\ call' = NoCall
    /\ ret' = NoRet

\* variant: `return list(self._graph[vertex])`, a new list object (0)
ReturnedList_Copy(g, vertex) == 0

\* `return self._graph[vertex]`: the list object get_all_edges returns for a
\* key is the neighbor list of that key's item (object i for the i-th item)
ReturnedList(g, vertex) == CHOOSE i \in 1..Len(g) : g[i].key = vertex

\* the caller appends a vertex to the list get_all_edges has just returned
AppendToReturned ==
    /\ call.op = "get_all_edges"
    /\ ret.st = "ok"
    /\ NumEdges(graph) < MaxEdges
    /\ \E w \in Vertices :
           LET o == ReturnedList(graph, call.args[1])
           IN  /\ graph' = IF o \in 1..Len(graph) THEN AppendTo(graph, o, w) ELSE graph
               /\ call' = [op |-> "append", args |-> <<call.args[1], w>>]
               /\ ret' = Ok(Append(ret.val, w))

\* the caller is done with the outcome of its last call
Discard ==
    /\ call # NoCall
    /\ call' = NoCall
    /\ ret' = NoRet
    /\ UNCHANGED graph

Next ==
    \/ ExistVertex
    \/ ExistEdge
    \/ GetAllEdges
    \/ GetDegree
    \/ IsReflexive
    \/ IsSymmetric
    \/ IsAntisymmetric
    \/ IsTransitive
    \/ HasEulerCircle
    \/ FindEulerCircle
    \/ FindHamiltonCircle
    \/ AppendEdge
    \/ AppendToReturned
    \/ Discard

Spec == Init /\ [][Next]_vars

----------------------------------------------------------------------------
(* The mappings without parallel edges, of any number of entries: the       *)
(* caller puts a vertex into a neighbor list at most once.  The complete    *)
(* graphs on the vertices are among them.                                   *)

AppendNewEdge ==
    /\ call = NoCall
    /\ \E i \in 1..Len(graph), w \in Vertices :
           /\ ~In(w, graph[i].targets)
           /\ graph' = AppendTo(graph, i, w)
    /\ call' = NoCall
    /\ ret' = NoRet

SimpleNext ==
    \/ AppendNewEdge
    \/ IsTransitive
    \/ FindHamiltonCircle
    \/ Discard

SimpleSpec == Init /\ [][SimpleNext]_vars

----------------------------------------------------------------------------
(* The weighted graph and minimumSpanningTree (spec.md, sections 3 and 4.4). *)
(* A weighted graph is a mapping from Vertex to a mapping from Vertex to a   *)
(* weight: the sequence of its items [key, weights], weights the sequence of *)
(* the items [target, weight] of the inner mapping.                          *)

\* the weights the callers use
Weights == {1, 2}

\* step 1: the (weight, u, v) records in the order the weight mapping is walked
RECURSIVE EdgeRecords(_)
EdgeRecords(wg) ==
    IF Len(wg) = 0 THEN <<>>
    ELSE [j \in 1..Len(Head(wg).weights) |->
              [weight |-> Head(wg).weights[j].weight,
               u      |-> Head(wg).key,
               v      |-> Head(wg).weights[j].target]]
         \o EdgeRecords(Tail(wg))

\* variant: the records are taken in encounter order, never sorted
SortByWeight_Unsorted(records) == records

\* step 2: ascending by weight, records of equal weight in encounter order
RECURSIVE SortByWeight(_)
SortByWeight(records) ==
    IF Len(records) = 0 THEN <<>>
    ELSE LET sorted == SortByWeight(SubSeq(records, 1, Len(records) - 1))
             r      == records[Len(records)]
             k      == Cardinality({i \in 1..Len(sorted) : sorted[i].weight <= r.weight})
         IN  SubSeq(sorted, 1, k) \o <<r>> \o SubSeq(sorted, k + 1, Len(sorted))

\* step 3: a vertex is its own parent until it is first touched
Touch(parent, x) == IF x \in DOMAIN parent THEN parent ELSE parent @@ (x :> x)

\* `find` with path compression: the root of x, and the parent pointers with
\* every visited vertex rewritten to the root
RECURSIVE find(_, _)
find(parent, x) ==
    LET p == Touch(parent, x)
    IN  IF p[x] = x THEN [root |-> x, parent |-> p]
        ELSE LET up == find(p, p[x])
             IN  [root |-> up.root, parent |-> [up.parent EXCEPT ![x] = up.root]]

\* `union`: one root is attached under the other, without rank balancing
union(parent, rootU, rootV) == [parent EXCEPT ![rootU] = rootV]

\* step 4: the accepted records, in the order they were accepted
RECURSIVE KruskalFrom(_, _, _, _)
KruskalFrom(sorted, i, parent, accepted) ==
    IF i > Len(sorted) THEN accepted
    ELSE LET fu == find(parent, sorted[i].u)
             fv == find(fu.parent, sorted[i].v)
         IN  IF fu.root # fv.root
             THEN KruskalFrom(sorted, i + 1, union(fv.parent, fu.root, fv.root),
                              Append(accepted, sorted[i]))
             ELSE KruskalFrom(sorted, i + 1, fv.parent, accepted)

\* step 5: the weighted graph of the accepted (u, v, weight) triples, each
\* directed as it was encountered
RECURSIVE FromTriples(_, _)
FromTriples(wg, accepted) ==
    IF Len(accepted) = 0 THEN wg
    ELSE LET t     == Head(accepted)
             entry == [target |-> t.v, weight |-> t.weight]
         IN  FromTriples(
                 IF \E i \in 1..Len(wg) : wg[i].key = t.u
                 THEN [i \in 1..Len(wg) |->
                          IF wg[i].key = t.u
                          THEN [wg[i] EXCEPT !.weights = Append(@, entry)]
                          ELSE wg[i]]
                 ELSE Append(wg, [key |-> t.u, weights |-> <<entry>>]),
                 Tail(accepted))

minimumSpanningTree(wg) ==
    Ok(FromTriples(<<>>, KruskalFrom(SortByWeight(EdgeRecords(wg)), 1, <<>>, <<>>)))

\* the weight mappings with the keys in some order and no weight entry
WeightedKeyMappings ==
    {[i \in 1..Len(ks) |-> [key |-> ks[i], weights |-> <<>>]] : ks \in KeyOrders}

WeightedInit ==
    /\ graph \in WeightedKeyMappings
    /\ call = NoCall
    /\ ret = NoRet

\* the caller gives the pair (u, v) a weight it does not have yet
SetWeight ==
    /\ call = NoCall
    /\ Len(EdgeRecords(graph)) < MaxEdges
    /\ \E i \in 1..Len(graph), v \in Vertices, w \in Weights :
           /\ \A j \in 1..Len(graph[i].weights) : graph[i].weights[j].target # v
           /\ graph' = [graph EXCEPT ![i].weights = Append(@, [target |-> v, weight |-> w])]
    /\ call' = NoCall
    /\ ret' = NoRet

MinimumSpanningTree ==
    /\ call = NoCall
    /\ call' = [op |-> "minimumSpanningTree", args |-> <<>>]
    /\ ret' = minimumSpanningTree(graph)
    /\ UNCHANGED graph

WeightedNext ==
    \/ SetWeight
    \/ MinimumSpanningTree
    \/ Discard

WeightedSpec == WeightedInit /\ [][WeightedNext]_vars

----------------------------------------------------------------------------
(* Graph.__init__ as a step of its own.  In this specification `graph` holds *)
(* the dict objects of the caller and of the Graph:                          *)
(*   original_data  the items of the dict the caller builds and changes,     *)
(*   own            the items of the dict the constructor creates, if any,   *)
(*   self           which of the two self._graph is ("none" before           *)
(*                  construction),                                           *)
(*   arg            the argument the constructor was called with,            *)
(*   changed        whether the caller has changed original_data or one of   *)
(*                  its lists since the constructor ran.                     *)

\* variant: `self._graph = {k: list(v) for k, v in graph.items()}`, the Graph
\* keeps a copy of the mapping
Graph_init_CopiesMapping(h, arg) ==
    IF arg # "None"
    THEN [h EXCEPT !.self = "own", !.own = h.original_data, !.arg = arg]
    ELSE [h EXCEPT !.self = "own", !.own = <<>>, !.arg = arg]

\* `self._graph = graph if graph is not None else {}`
Graph_init(h, arg) ==
    IF arg # "None"
    THEN [h EXCEPT !.self = "original_data", !.arg = arg]
    ELSE [h EXCEPT !.self = "own", !.own = <<>>, !.arg = arg]

\* the dict self._graph refers to
SelfGraph(h) == IF h.self = "original_data" THEN h.original_data ELSE h.own

ConstructInit ==
    /\ graph \in {[original_data |-> m, own |-> <<>>, self |-> "none", arg |-> "none",
                   changed |-> FALSE] : m \in KeyMappings}
    /\ call = NoCall
    /\ ret = NoRet

\* Graph(original_data), or Graph() / Graph(None)
Construct ==
    /\ call = NoCall
    /\ graph.self = "none"
    /\ \E arg \in {"None", "original_data"} :
           /\ graph' = Graph_init(graph, arg)
           /\ call' = [op |-> "__init__", args |-> <<arg>>]
    /\ ret' = Ok("None")

\* `original_data[k].append(w)`, before or after the construction
CallerAppends ==
    /\ call = NoCall
    /\ NumEdges(graph.original_data) < MaxEdges
    /\ \E i \in 1..Len(graph.original_data), w \in Vertices :
           graph' = [graph EXCEPT !.original_data = AppendTo(@, i, w),
                                  !.changed = (graph.self # "none")]
    /\ call' = NoCall
    /\ ret' = NoRet

\* `original_data[k] = []` for a new key k, after the construction
CallerInsertsKey ==
    /\ call = NoCall
    /\ graph.self # "none"
    /\ \E k \in Vertices :
           /\ ~Contains(graph.original_data, k)
           /\ graph' = [graph EXCEPT
                            !.original_data = Append(@, [key |-> k, targets |-> <<>>]),
                            !.changed = TRUE]
    /\ call' = NoCall
    /\ ret' = NoRet

ConstructedExistVertex ==
    \E v \in Vertices :
        /\ call = NoCall
        /\ graph.self # "none"
        /\ call' = [op |-> "exist_vertex", args |-> <<v>>]
        /\ ret' = exist_vertex(SelfGraph(graph), v)
        /\ UNCHANGED graph

ConstructedGetAllEdges ==
    \E v \in Vertices :
        /\ call = NoCall
        /\ graph.self # "none"
        /\ call' = [op |-> "get_all_edges", args |-> <<v>>]
        /\ ret' = get_all_edges(SelfGraph(graph), v)
        /\ UNCHANGED graph

ConstructedGetDegree ==
    \E v \in Vertices :
        /\ call = NoCall
        /\ graph.self # "none"
        /\ call' = [op |-> "get_degree", args |-> <<v>>]
        /\ ret' = get_degree(SelfGraph(graph), v)
        /\ UNCHANGED graph

ConstructedIsReflexive ==
    /\ call = NoCall
    /\ graph.self # "none"
    /\ call' = [op |-> "is_reflexive", args |-> <<>>]
    /\ ret' = is_reflexive(SelfGraph(graph))
    /\ UNCHANGED graph

ConstructNext ==
    \/ Construct
    \/ CallerAppends
    \/ CallerInsertsKey
    \/ ConstructedExistVertex
    \/ ConstructedGetAllEdges
    \/ ConstructedGetDegree
    \/ ConstructedIsReflexive
    \/ Discard

ConstructSpec == ConstructInit /\ [][ConstructNext]_vars

----------------------------------------------------------------------------
(* find_euler_circle, one iteration of its `while stack:` loop at a time.    *)
(* While the call runs, `ret` holds its local variables:                     *)
(* [st |-> "running", work, stack, solution], work the working dict `graph`. *)

\* the call up to the loop: the has_euler_circle test, the copy, the start
\* vertex and its push
EulerStart ==
    /\ call = NoCall
    /\ call' = [op |-> "find_euler_circle", args |-> <<>>]
    /\ ret' = IF ~has_euler_circle(graph).val THEN Ok(<<>>)
              ELSE IF Len(KeysOf(graph)) = 0 THEN Raise("IndexError")
              ELSE [st |-> "running", work |-> graph,
                    stack |-> <<KeysOf(graph)[1]>>, solution |-> <<>>]
    /\ UNCHANGED graph

\* one iteration of the loop
EulerIteration ==
    /\ ret.st = "running"
    /\ Len(ret.stack) > 0
    /\ LET vertex == ret.stack[Len(ret.stack)]
       IN  ret' = IF ~Contains(ret.work, vertex) THEN Raise("KeyError")
                  ELSE LET vertices == GetItem(ret.work, vertex)
                       IN  IF Len(vertices) > 0
                           THEN [ret EXCEPT !.work = PopLast(ret.work, vertex),
                                            !.stack = Append(@, vertices[Len(vertices)])]
                           ELSE [ret EXCEPT !.stack = SubSeq(@, 1, Len(@) - 1),
                                            !.solution = Append(@, vertex)]
    /\ UNCHANGED <<graph, call>>

\* the loop has ended: `return solution[::-1]`
EulerReturn ==
    /\ ret.st = "running"
    /\ Len(ret.stack) = 0
    /\ ret' = Ok(Reverse(ret.solution))
    /\ UNCHANGED <<graph, call>>

\* the caller is done with the outcome of a call that has ended
DiscardOutcome ==
    /\ ret.st # "running"
    /\ Discard

EulerNext ==
    \/ AppendEdge
    \/ EulerStart
    \/ EulerIteration
    \/ EulerReturn
    \/ DiscardOutcome

\* a call that has started runs on: nothing else runs beside it
EulerSpec ==
    /\ Init
    /\ [][EulerNext]_vars
    /\ WF_vars(EulerIteration)
    /\ WF_vars(EulerReturn)

----------------------------------------------------------------------------
(* greedyColoring and greedyTotalColoring of src/26-01-30/coloring.py.  The  *)
(* input is a plain dict from node to list of nodes, the items sequence as   *)
(* above.  The result dict is the sequence of its items [key, color]; the    *)
(* key of a node u is written <<u>> and the key of an edge is the tuple      *)
(* <<start, end>>, so that a node and an edge are never equal, as a str and  *)
(* a tuple are not.                                                          *)

\* `neighbor in result`
HasColor(result, key) == \E i \in 1..Len(result) : result[i].key = key

\* `result[neighbor]` for a key of result
ColorOf(result, key) == result[CHOOSE i \in 1..Len(result) : result[i].key = key].color

\* variant: the color above all neighbor colors is taken
SmallestFree_AboveAll(neighbor_colors, color) ==
    IF neighbor_colors = {} THEN color
    ELSE 1 + CHOOSE c \in neighbor_colors : \A d \in neighbor_colors : d <= c

\* `while color in neighbor_colors: color += 1`
RECURSIVE SmallestFree(_, _)
SmallestFree(neighbor_colors, color) ==
    IF color \in neighbor_colors THEN SmallestFree(neighbor_colors, color + 1)
    ELSE color

\* the `for node in inputGraph:` loop of greedyColoring from the i-th node on
RECURSIVE ColorNodesFrom(_, _, _)
ColorNodesFrom(inputGraph, i, result) ==
    IF i > Len(inputGraph) THEN result
    ELSE LET node            == inputGraph[i].key
             neighbors       == inputGraph[i].targets
             neighbor_colors == {ColorOf(result, <<neighbors[j]>>) :
                                     j \in {k \in 1..Len(neighbors) :
                                                HasColor(result, <<neighbors[k]>>)}}
             color           == SmallestFree(neighbor_colors, 0)
         IN  ColorNodesFrom(inputGraph, i + 1,
                            Append(result, [key |-> <<node>>, color |-> color]))

greedyColoring(inputGraph) == Ok(ColorNodesFrom(inputGraph, 1, <<>>))

\* the order of str: "A" < "B" < "C"
StrRank(x) == CASE x = "A" -> 1 [] x = "B" -> 2 [] x = "C" -> 3

\* `tuple(sorted((u, v)))`
SortedPair(u, v) == IF StrRank(u) <= StrRank(v) THEN <<u, v>> ELSE <<v, u>>

\* `set([tuple(sorted((u, v))) for u in inputGraph for v in inputGraph[u]])`
EdgeSet(inputGraph) ==
    {SortedPair(EdgeList(inputGraph)[i].vertex, EdgeList(inputGraph)[i].target) :
         i \in 1..Len(EdgeList(inputGraph))}

RECURSIVE SetToSeq(_)
SetToSeq(S) ==
    IF S = {} THEN <<>>
    ELSE LET x == CHOOSE y \in S : TRUE
         IN  <<x>> \o SetToSeq(S \ {x})

\* the orders in which `for start, end in edges` can yield the elements of
\* the set: the iteration order of a set of tuples of str is not fixed
IterationOrders(edges) ==
    LET perms == permutations(SetToSeq(edges))
    IN  {perms[k] : k \in 1..Len(perms)}

\* `neighbore_edges`: the other edges with an endpoint in [start, end]
NeighborEdges(edges, start, end) ==
    {edge \in edges :
         /\ (edge[1] \in {start, end} \/ edge[2] \in {start, end})
         /\ edge # <<start, end>>}

\* variant: neighbor_colors starts as set(), as in greedyEdgeColoring
EdgeNeighborColors_NoEndpoints(result, edges, start, end) ==
    {ColorOf(result, n) : n \in {m \in NeighborEdges(edges, start, end) : HasColor(result, m)}}

\* neighbor_colors of greedyTotalColoring for the edge (start, end), both
\* endpoints keys of result
EdgeNeighborColors(result, edges, start, end) ==
    {ColorOf(result, <<start>>), ColorOf(result, <<end>>)}
        \cup {ColorOf(result, n) :
                  n \in {m \in NeighborEdges(edges, start, end) : HasColor(result, m)}}

\* the `for start, end in edges:` loop of greedyTotalColoring; `result[start]`
\* raises KeyError for an endpoint that is not a node of the input
RECURSIVE ColorEdgesFrom(_, _, _, _)
ColorEdgesFrom(edges, order, i, result) ==
    IF i > Len(order) THEN Ok(result)
    ELSE LET start == order[i][1]
             end   == order[i][2]
         IN  IF ~HasColor(result, <<start>>) \/ ~HasColor(result, <<end>>)
             THEN Raise("KeyError")
             ELSE LET neighbor_colors == EdgeNeighborColors(result, edges, start, end)
                      color           == SmallestFree(neighbor_colors, 0)
                  IN  ColorEdgesFrom(edges, order, i + 1,
                                     Append(result, [key |-> <<start, end>>, color |-> color]))

\* greedyTotalColoring when the set `edges` yields its elements in `order`
greedyTotalColoring(inputGraph, order) ==
    ColorEdgesFrom(EdgeSet(inputGraph), order, 1, greedyColoring(inputGraph).val)

GreedyColoring ==
    /\ call = NoCall
    /\ call' = [op |-> "greedyColoring", args |-> <<>>]
    /\ ret' = greedyColoring(graph)
    /\ UNCHANGED graph

GreedyTotalColoring ==
    /\ call = NoCall
    /\ call' = [op |-> "greedyTotalColoring", args |-> <<>>]
    /\ \E order \in IterationOrders(EdgeSet(graph)) :
           ret' = greedyTotalColoring(graph, order)
    /\ UNCHANGED graph

\* the inputs of greedyColoring: the mappings without parallel entries
ColoringNext ==
    \/ AppendNewEdge
    \/ GreedyColoring
    \/ Discard

ColoringSpec == Init /\ [][ColoringNext]_vars

\* the inputs of greedyTotalColoring: the mappings of at most MaxEdges entries
TotalColoringNext ==
    \/ AppendEdge
    \/ GreedyTotalColoring
    \/ Discard

TotalColoringSpec == Init /\ [][TotalColoringNext]_vars

----------------------------------------------------------------------------
(* Vocabulary of the properties, stated on the mapping itself *)

KeySet(g) == {g[i].key : i \in 1..Len(g)}

\* the positions <<i, j>> of the neighbor-list entries
Entries(g) == UNION {{<<i, j>> : j \in 1..Len(g[i].targets)} : i \in 1..Len(g)}

Source(g, e) == g[e[1]].key

Target(g, e) == g[e[1]].targets[e[2]]

Edge(g, u, v) == \E e \in Entries(g) : Source(g, e) = u /\ Target(g, e) = v

HasDanglingTarget(g) == \E e \in Entries(g) : Target(g, e) \notin KeySet(g)

Degree(g, v) ==
    Cardinality({e \in Entries(g) : Source(g, e) = v})
        + Cardinality({e \in Entries(g) : Target(g, e) = v})

AllDegreesEven(g) == \A v \in KeySet(g) : Degree(g, v) % 2 = 0

\* the orderings of all keys
Orderings(g) ==
    {P \in [1..Len(g) -> KeySet(g)] : \A i, j \in 1..Len(g) : i # j => P[i] # P[j]}

\* P[i] -> P[i+1] for every i, and the closing edge from the last to the first
IsCircuit(g, P) ==
    /\ \A i \in 1..(Len(P) - 1) : Edge(g, P[i], P[i + 1])
    /\ Edge(g, P[Len(P)], P[1])

Called(op) == call.op = op

----------------------------------------------------------------------------
(* The properties *)

\* C1: find_euler_circle returns the empty list whenever has_euler_circle is
\* false; whenever has_euler_circle is true it returns a non-empty sequence
\* whose first and last elements are equal when it has more than one element.
C1_EulerCircleContract ==
    Called("find_euler_circle") =>
        IF ~has_euler_circle(graph).val
        THEN ret = Ok(<<>>)
        ELSE /\ ret.st = "ok"
             /\ Len(ret.val) > 0
             /\ Len(ret.val) > 1 => ret.val[1] = ret.val[Len(ret.val)]

C3_HamiltonResultIsCircuit ==
    (Called("find_hamilton_circle") /\ ret.st = "ok" /\ Len(ret.val) > 0) =>
        /\ ret.val \in Orderings(graph)
        /\ \A i \in 1..Len(ret.val) :
               Edge(graph, ret.val[i], ret.val[(i % Len(ret.val)) + 1])

\* a circuit through three keys was returned
C3_Witness ==
    /\ Called("find_hamilton_circle")
    /\ ret.st = "ok"
    /\ Len(ret.val) = 3

\* C4: on a graph with at least one key, find_hamilton_circle returns the
\* empty list exactly when no ordering of all keys is a circuit; on a
\* single-key graph the result is the one-element sequence exactly when the
\* key has a self-loop.
C4_HamiltonEmptyIffNoCircuit ==
    (Called("find_hamilton_circle") /\ Len(graph) >= 1) =>
        /\ ret.st = "ok"
        /\ ret.val = <<>> <=> ~\E P \in Orderings(graph) : IsCircuit(graph, P)
        /\ Len(graph) = 1 =>
               (ret.val = <<graph[1].key>> <=> Edge(graph, graph[1].key, graph[1].key))

\* two or more keys with an edge between them and no circuit: the empty list
C4_Witness ==
    /\ Called("find_hamilton_circle")
    /\ Len(graph) >= 2
    /\ \E e \in Entries(graph) : Source(graph, e) # Target(graph, e)
    /\ ret = Ok(<<>>)

\* C5: find_euler_circle on the empty graph returns the empty list and does
\* not raise.
C5_EulerCircleOnEmptyGraph ==
    (Called("find_euler_circle") /\ Len(graph) = 0) => ret = Ok(<<>>)

\* C6: find_hamilton_circle on the empty graph returns the empty list and
\* does not raise.
C6_HamiltonCircleOnEmptyGraph ==
    (Called("find_hamilton_circle") /\ Len(graph) = 0) => ret = Ok(<<>>)

\* C7: for a key v, get_degree(v) is the number of entries of v's neighbor
\* list plus the number of entries equal to v in all neighbor lists, parallel
\* edges counted with multiplicity; each self-loop entry contributes 2.
C7_DegreeCountsEntries ==
    (Called("get_degree") /\ call.args[1] \in KeySet(graph)) =>
        LET v      == call.args[1]
            loops  == {e \in Entries(graph) : Source(graph, e) = v /\ Target(graph, e) = v}
            out    == {e \in Entries(graph) : Source(graph, e) = v /\ Target(graph, e) # v}
            in     == {e \in Entries(graph) : Source(graph, e) # v /\ Target(graph, e) = v}
        IN  /\ ret = Ok(Degree(graph, v))
            /\ ret.val = 2 * Cardinality(loops) + Cardinality(out) + Cardinality(in)

\* the degree of a key with a self-loop and a parallel incoming edge
C7_Witness ==
    /\ Called("get_degree")
    /\ call.args[1] \in KeySet(graph)
    /\ Edge(graph, call.args[1], call.args[1])
    /\ \E e, f \in Entries(graph) :
           /\ e # f
           /\ Source(graph, e) = Source(graph, f)
           /\ Source(graph, e) # call.args[1]
           /\ Target(graph, e) = call.args[1]
           /\ Target(graph, f) = call.args[1]
    /\ ret = Ok(4)

\* C8: exist_edge(u, v), get_all_edges(u) and get_degree(u) raise KeyError
\* exactly when u is not a key, also when u is an edge target only;
\* exist_edge(u, v) with u a key does not raise, whatever v; a call that
\* raises leaves the graph as it was.
C8_KeyErrorIffNotAKey ==
    [][(call'.op \in {"exist_edge", "get_all_edges", "get_degree"} /\ call' # call) =>
           /\ ret'.st \in {"ok", "KeyError"}
           /\ ret'.st = "KeyError" <=> call'.args[1] \notin KeySet(graph)
           /\ ret'.st = "KeyError" => graph' = graph]_vars

\* exist_edge raised on a vertex that is an edge target and not a key
C8_Witness ==
    /\ Called("exist_edge")
    /\ call.args[1] \notin KeySet(graph)
    /\ \E e \in Entries(graph) : Target(graph, e) = call.args[1]
    /\ ret.st = "KeyError"

\* C9: is_symmetric returns false, and does not raise, on every graph with
\* an edge whose target is not a key.
C9_SymmetricFalseOnDanglingTarget ==
    (Called("is_symmetric") /\ HasDanglingTarget(graph)) => ret = Ok(FALSE)

\* C10: is_antisymmetric returns true, and does not raise, on a graph whose
\* only edges between distinct vertices point to targets that are not keys.
C10_AntisymmetricTrueOnDanglingTargets ==
    (/\ Called("is_antisymmetric")
     /\ HasDanglingTarget(graph)
     /\ \A e \in Entries(graph) :
            Source(graph, e) # Target(graph, e) => Target(graph, e) \notin KeySet(graph))
        => ret = Ok(TRUE)

\* every two-hop path u -> v -> w, v a key, has the edge u -> w
TwoHopClosed(g) ==
    \A e, f \in Entries(g) :
        Target(g, e) = Source(g, f) => Edge(g, Source(g, e), Target(g, f))

\* C11: is_transitive returns true exactly when every two-hop path u -> v -> w
\* whose middle vertex v is a key has w in u's neighbor list; an edge to a
\* target that is not a key asks for nothing, so the call returns a boolean
\* and never raises (true for {A: [B]}).
C11_TransitiveIffTwoHopClosed ==
    Called("is_transitive") =>
        /\ ret.st = "ok"
        /\ ret.val <=> TwoHopClosed(graph)

\* every key has an edge to every other key, and to nothing else
CompleteLoopless(g) ==
    \A i \in 1..Len(g) :
        {g[i].targets[j] : j \in 1..Len(g[i].targets)} = KeySet(g) \ {g[i].key}

\* C12: is_transitive returns true for the complete graph on three vertices
\* without self-loops (every vertex has an edge to every other vertex).
C12_TransitiveOnCompleteTriangle ==
    (Called("is_transitive") /\ Len(graph) = 3 /\ CompleteLoopless(graph)) =>
        ret = Ok(TRUE)

\* C13: on a graph whose edge targets are all keys, is_symmetric returns true
\* exactly when for every edge (u, v) the vertex u is in v's neighbor list;
\* how often an edge occurs does not matter and a self-loop satisfies itself.
C13_SymmetricIffReverseEdges ==
    (Called("is_symmetric") /\ ~HasDanglingTarget(graph)) =>
        /\ ret.st = "ok"
        /\ ret.val <=> \A e \in Entries(graph) :
                           Edge(graph, Target(graph, e), Source(graph, e))

\* reported symmetric with an edge that occurs twice and its reverse once
C13_Witness ==
    /\ Called("is_symmetric")
    /\ ret = Ok(TRUE)
    /\ \E e, f \in Entries(graph) :
           /\ e # f
           /\ Source(graph, e) = Source(graph, f)
           /\ Target(graph, e) = Target(graph, f)
           /\ Source(graph, e) # Target(graph, e)
           /\ Cardinality({h \in Entries(graph) :
                               /\ Source(graph, h) = Target(graph, e)
                               /\ Target(graph, h) = Source(graph, e)}) = 1

\* C14: on a graph whose edge targets are all keys, is_antisymmetric returns
\* true exactly when no two distinct vertices u, v have both the edge (u, v)
\* and the edge (v, u); self-loops, however many, never make it false.
C14_AntisymmetricIffNoMutualPair ==
    (Called("is_antisymmetric") /\ ~HasDanglingTarget(graph)) =>
        /\ ret.st = "ok"
        /\ ret.val <=> ~\E u, v \in KeySet(graph) :
                           u # v /\ Edge(graph, u, v) /\ Edge(graph, v, u)

\* reported antisymmetric with two self-loops on a vertex that also has an
\* edge to another vertex
C14_Witness ==
    /\ Called("is_antisymmetric")
    /\ ret = Ok(TRUE)
    /\ \E e, f, h \in Entries(graph) :
           /\ e # f
           /\ Source(graph, e) = Target(graph, e)
           /\ Source(graph, f) = Target(graph, f)
           /\ Source(graph, f) = Source(graph, e)
           /\ Source(graph, h) = Source(graph, e)
           /\ Target(graph, h) # Source(graph, h)

\* C15: find_euler_circle does not change the graph it is called on: the keys
\* and every neighbor list, contents and order, are after the call what they
\* were before it; the edges are removed from a private copy.
C15_FindEulerCircleKeepsGraph ==
    [][(call'.op = "find_euler_circle" /\ call' # call) => graph' = graph]_vars

\* a call whose loop removed two or more edges from its working copy
C15_Witness ==
    /\ Called("find_euler_circle")
    /\ ret.st = "ok"
    /\ Len(ret.val) >= 3
    /\ NumEdges(graph) >= 2

\* the calls C16 is about
Queries ==
    {"exist_vertex", "exist_edge", "get_degree", "is_reflexive", "is_symmetric",
     "is_antisymmetric", "is_transitive", "has_euler_circle", "find_hamilton_circle"}

\* the outcome of the call c made on the mapping g
OutcomeOf(c, g) ==
    CASE c.op = "exist_vertex"         -> exist_vertex(g, c.args[1])
      [] c.op = "exist_edge"           -> exist_edge(g, c.args[1], c.args[2])
      [] c.op = "get_degree"           -> get_degree(g, c.args[1])
      [] c.op = "is_reflexive"         -> is_reflexive(g)
      [] c.op = "is_symmetric"         -> is_symmetric(g)
      [] c.op = "is_antisymmetric"     -> is_antisymmetric(g)
      [] c.op = "is_transitive"        -> is_transitive(g)
      [] c.op = "has_euler_circle"     -> has_euler_circle(g)
      [] c.op = "find_hamilton_circle" -> find_hamilton_circle(g)

\* C16: exist_vertex, exist_edge, get_degree, is_reflexive, is_symmetric,
\* is_antisymmetric, is_transitive, has_euler_circle and find_hamilton_circle
\* leave the adjacency mapping as it was, so the same call made again after
\* it gives the same outcome.
C16_QueriesKeepGraph ==
    [][(call'.op \in Queries /\ call' # call) =>
           /\ graph' = graph
           /\ OutcomeOf(call', graph') = ret']_vars

\* a query has returned on a graph with edges, one with a circuit through
\* all of its keys
C16_Witness ==
    /\ Called("find_hamilton_circle")
    /\ ret.st = "ok"
    /\ Len(ret.val) >= 2
    /\ ret.val = KeysOf(graph)

\* C17: get_all_edges(v) returns the graph's own neighbor list of v, in its
\* order and with its duplicates, and not a copy: once the caller has appended
\* w to the returned list, exist_edge(v, w) is true and get_degree(v) has grown.
C17_ReturnedListIsTheGraphs ==
    [][(call.op = "get_all_edges" /\ call'.op = "append") =>
           LET v == call'.args[1]
               w == call'.args[2]
           IN  /\ \E i \in 1..Len(graph) : graph[i].key = v /\ graph[i].targets = ret.val
               /\ exist_edge(graph', v, w) = Ok(TRUE)
               /\ get_degree(graph', v).val > get_degree(graph, v).val
               /\ get_all_edges(graph', v) = ret']_vars

\* the caller appended to a returned list that held a duplicate, and the
\* graph has the new edge
C17_Witness ==
    /\ Called("append")
    /\ Len(ret.val) = 3
    /\ ret.val[1] = ret.val[2]
    /\ ret.val[3] # ret.val[1]
    /\ Edge(graph, call.args[1], call.args[2])

\* a graph of one key with an empty neighbor list
SingleVertexNoEdges(g) == Len(g) = 1 /\ g[1].targets = <<>>

C19_NoEulerCircleOfSingleVertex ==
    (Called("find_euler_circle") /\ SingleVertexNoEdges(graph)) => ret = Ok(<<>>)

\* a closed walk that traverses every edge exactly once: a cyclic ordering
\* of all entries, each ending where the next one starts (a graph without
\* edges has the walk of no edges)
EulerianCircleExists(g) ==
    LET n == Cardinality(Entries(g))
    IN  \E walk \in [1..n -> Entries(g)] :
            /\ \A i, j \in 1..n : i # j => walk[i] # walk[j]
            /\ \A i \in 1..n : Target(g, walk[i]) = Source(g, walk[(i % n) + 1])

\* C20: has_euler_circle returns true if the graph has an Eulerian circle, a
\* closed walk traversing every edge exactly once (which needs a connected
\* graph and even degrees), and false otherwise.
C20_HasEulerCircleIffEulerian ==
    Called("has_euler_circle") =>
        /\ ret.st = "ok"
        /\ ret.val <=> EulerianCircleExists(graph)

----------------------------------------------------------------------------
(* Vocabulary of the properties of weighted graphs *)

\* the vertices of a weighted graph: its keys and the targets of its weights
WeightedVertices(wg) ==
    {wg[i].key : i \in 1..Len(wg)}
        \cup UNION {{wg[i].weights[j].target : j \in 1..Len(wg[i].weights)} : i \in 1..Len(wg)}

RecordSet(wg) == {EdgeRecords(wg)[i] : i \in 1..Len(EdgeRecords(wg))}

\* the vertices joined to a vertex of `seen` by records of S, whatever
\* their direction
RECURSIVE JoinedBy(_, _)
JoinedBy(S, seen) ==
    LET more == seen \cup {r.v : r \in {x \in S : x.u \in seen}}
                     \cup {r.u : r \in {x \in S : x.v \in seen}}
    IN  IF more = seen THEN seen ELSE JoinedBy(S, more)

\* the records of S join all vertices of V into one component
Spans(S, V) == V # {} /\ JoinedBy(S, {CHOOSE x \in V : TRUE}) = V

RECURSIVE TotalWeight(_)
TotalWeight(S) ==
    IF S = {} THEN 0
    ELSE LET r == CHOOSE x \in S : TRUE
         IN  r.weight + TotalWeight(S \ {r})

\* the spanning trees: |V| - 1 records that join all vertices
SpanningTrees(wg) ==
    {T \in SUBSET RecordSet(wg) :
         /\ Cardinality(T) = Cardinality(WeightedVertices(wg)) - 1
         /\ Spans(T, WeightedVertices(wg))}

\* C21: minimumSpanningTree on a connected weighted graph returns a graph of
\* exactly |V| - 1 edges, all edges of the input, that contains no cycle (no
\* edge joins two vertices the other edges already join) and whose total
\* weight is the least total weight of a spanning tree of the input.
C21_MinimumSpanningTree ==
    (Called("minimumSpanningTree") /\ Spans(RecordSet(graph), WeightedVertices(graph))) =>
        /\ ret.st = "ok"
        /\ LET tree == RecordSet(ret.val)
           IN  /\ Len(EdgeRecords(ret.val)) = Cardinality(WeightedVertices(graph)) - 1
               /\ tree \subseteq RecordSet(graph)
               /\ \A r \in tree : r.v \notin JoinedBy(tree \ {r}, {r.u})
               /\ tree \in SpanningTrees(graph)
               /\ \A T \in SpanningTrees(graph) : TotalWeight(tree) <= TotalWeight(T)

\* a tree was returned for three vertices with a cycle among the records, a
\* record left out, and a heavier spanning tree to choose
C21_Witness ==
    /\ Called("minimumSpanningTree")
    /\ Cardinality(WeightedVertices(graph)) = 3
    /\ Spans(RecordSet(graph), WeightedVertices(graph))
    /\ Len(EdgeRecords(graph)) = 3
    /\ Len(EdgeRecords(ret.val)) = 2
    /\ \E T \in SpanningTrees(graph) : TotalWeight(T) > TotalWeight(RecordSet(ret.val))

\* the vertices reachable from the vertices of `seen` along the edges
RECURSIVE ReachableFrom(_, _)
ReachableFrom(g, seen) ==
    LET more == seen \cup {Target(g, e) : e \in {x \in Entries(g) : Source(g, x) \in seen}}
    IN  IF more = seen THEN seen ELSE ReachableFrom(g, more)

Position(g, v) == CHOOSE i \in 1..Len(g) : g[i].key = v

\* P comes before Q in the lexicographic order of the insertion positions
LexBefore(g, P, Q) ==
    \E k \in 1..Len(P) :
        /\ \A j \in 1..(k - 1) : P[j] = Q[j]
        /\ Position(g, P[k]) < Position(g, Q[k])

\* C24: when some ordering of the keys is accepted, find_hamilton_circle
\* returns the accepted ordering that comes first in the lexicographic order
\* of the keys' insertion positions; so every non-empty result begins with
\* the first-inserted key.
C24_HamiltonFirstAccepted ==
    Called("find_hamilton_circle") =>
        /\ (\E P \in Orderings(graph) : IsCircuit(graph, P)) =>
               /\ ret.st = "ok"
               /\ ret.val \in Orderings(graph)
               /\ IsCircuit(graph, ret.val)
               /\ \A P \in Orderings(graph) :
                      (IsCircuit(graph, P) /\ P # ret.val) => LexBefore(graph, ret.val, P)
        /\ (ret.st = "ok" /\ Len(ret.val) > 0) => ret.val[1] = graph[1].key

\* three keys with two accepted orderings that begin with the first key
C24_Witness ==
    /\ Called("find_hamilton_circle")
    /\ Len(graph) = 3
    /\ ret.st = "ok"
    /\ Len(ret.val) = 3
    /\ \E P \in Orderings(graph) :
           IsCircuit(graph, P) /\ P # ret.val /\ P[1] = graph[1].key

\* an edge to a vertex that is not a key starts at a key the first key reaches
ReachesDanglingTarget(g) ==
    /\ Len(g) > 0
    /\ \E e \in Entries(g) :
           /\ Target(g, e) \notin KeySet(g)
           /\ Source(g, e) \in ReachableFrom(g, {g[1].key})

QueryOn(c, g) ==
    CASE c.op = "exist_vertex"  -> exist_vertex(g, c.args[1])
      [] c.op = "get_all_edges" -> get_all_edges(g, c.args[1])
      [] c.op = "get_degree"    -> get_degree(g, c.args[1])
      [] c.op = "is_reflexive"  -> is_reflexive(g)

\* C26: a Graph constructed from a mapping holds that mapping and its neighbor
\* lists themselves: whatever the caller has since done to the mapping or to
\* a neighbor list, a query answers for the caller's mapping as it now is.  A
\* Graph constructed with no argument, or None, is empty.
C26_GraphSharesItsMapping ==
    /\ (graph.arg = "original_data"
            /\ call.op \in {"exist_vertex", "get_all_edges", "get_degree", "is_reflexive"}) =>
           ret = QueryOn(call, graph.original_data)
    /\ (call.op = "__init__" /\ graph.arg = "None") => SelfGraph(graph) = <<>>

\* a query answered with an edge of a mapping the caller has changed since
\* the construction
C26_Witness ==
    /\ graph.arg = "original_data"
    /\ graph.changed
    /\ call = [op |-> "get_degree", args |-> <<"C">>]
    /\ ret = Ok(2)

\* every key has as many incoming as outgoing entries
Balanced(g) ==
    \A v \in KeySet(g) :
        Cardinality({e \in Entries(g) : Source(g, e) = v})
            = Cardinality({e \in Entries(g) : Target(g, e) = v})

\* the graphs C27 is about
EulerianFromFirstKey(g) ==
    /\ ~HasDanglingTarget(g)
    /\ Balanced(g)
    /\ Entries(g) # {}
    /\ \A e \in Entries(g) : Source(g, e) \in ReachableFrom(g, {g[1].key})

\* C27: on a graph whose edge targets are all keys, whose keys all have equal
\* in- and out-degree, that has an edge and whose keys with an outgoing edge
\* are all reachable from the first-inserted key, find_euler_circle returns
\* an Eulerian circuit: |E| + 1 elements, the first and the last of them the
\* first-inserted key, and each pair (u, v) as often among the consecutive
\* pairs of the result as among the edges.
C27_EulerCircleIsEulerian ==
    (Called("find_euler_circle") /\ EulerianFromFirstKey(graph)) =>
        /\ ret.st = "ok"
        /\ Len(ret.val) = Cardinality(Entries(graph)) + 1
        /\ ret.val[1] = graph[1].key
        /\ ret.val[Len(ret.val)] = graph[1].key
        /\ \A u, v \in KeySet(graph) :
               Cardinality({i \in 1..(Len(ret.val) - 1) : ret.val[i] = u /\ ret.val[i + 1] = v})
                   = Cardinality({e \in Entries(graph) : Source(graph, e) = u /\ Target(graph, e) = v})

\* a circuit of three edges through two or more keys was returned
C27_Witness ==
    /\ Called("find_euler_circle")
    /\ EulerianFromFirstKey(graph)
    /\ Cardinality(Entries(graph)) = 3
    /\ \E e \in Entries(graph) : Source(graph, e) # Target(graph, e)
    /\ ret.st = "ok"
    /\ Len(ret.val) = 4

\* C28: on a non-empty graph whose edge targets are all keys the stack loop
\* of find_euler_circle terminates: each iteration either removes one entry
\* from the neighbor lists of the working copy and pushes a vertex, or pops
\* one vertex from the stack and removes no entry, and the loop ends with an
\* empty stack.
C28_EulerLoopTerminates ==
    /\ [][(ret.st = "running" /\ ret'.st = "running") =>
              \/ /\ NumEdges(ret'.work) = NumEdges(ret.work) - 1
                 /\ Len(ret'.stack) = Len(ret.stack) + 1
              \/ /\ ret'.work = ret.work
                 /\ Len(ret'.stack) = Len(ret.stack) - 1]_vars
    /\ (ret.st = "running" /\ ~HasDanglingTarget(graph))
           ~> (ret.st = "running" /\ Len(ret.stack) = 0)

\* the loop has ended after it walked three edges
C28_Witness ==
    /\ ret.st = "running"
    /\ Len(ret.stack) = 0
    /\ Len(ret.solution) = 4
    /\ NumEdges(ret.work) = 0

\* the i-th item of `items` colors the i-th node of g, with the smallest
\* color that no neighbor of the node among the nodes before it has
GreedyNodeColors(g, items) ==
    /\ Len(items) >= Len(g)
    /\ \A i \in 1..Len(g) :
           LET earlier == {items[j].color : j \in {k \in 1..(i - 1) : In(g[k].key, g[i].targets)}}
           IN  /\ items[i].key = <<g[i].key>>
               /\ items[i].color \in Nat
               /\ items[i].color \notin earlier
               /\ \A c \in 0..(items[i].color - 1) : c \in earlier

\* v listed under u implies u listed under v
SymmetricAdjacency(g) ==
    \A e \in Entries(g) : Edge(g, Target(g, e), Source(g, e))

\* C29: greedyColoring gives every node of the input, in the input's order,
\* the smallest non-negative color that no neighbor processed before it
\* holds; so when the adjacency is symmetric two distinct adjacent nodes have
\* different colors, and the color of a node is at most the number of entries
\* of its neighbor list.
C29_GreedyColoring ==
    Called("greedyColoring") =>
        /\ ret.st = "ok"
        /\ Len(ret.val) = Len(graph)
        /\ GreedyNodeColors(graph, ret.val)
        /\ SymmetricAdjacency(graph) =>
               \A i, j \in 1..Len(graph) :
                   (i # j /\ In(graph[j].key, graph[i].targets)) =>
                       ret.val[i].color # ret.val[j].color
        /\ \A i \in 1..Len(graph) : ret.val[i].color <= Len(graph[i].targets)

\* three nodes, each adjacent to the two others, colored 0, 1 and 2
C29_Witness ==
    /\ Called("greedyColoring")
    /\ Len(graph) = 3
    /\ SymmetricAdjacency(graph)
    /\ CompleteLoopless(graph)
    /\ ret.st = "ok"
    /\ {ret.val[i].color : i \in 1..3} = {0, 1, 2}

\* C30: in the result of greedyTotalColoring on a mapping whose edge endpoints
\* are all keys, every undirected edge, held once under its sorted pair, has a
\* color that differs from the colors of its two endpoints and from the color
\* of every other edge it shares an endpoint with, in whatever order the
\* edges were processed; the node colors are those greedyColoring gives.
C30_GreedyTotalColoring ==
    (Called("greedyTotalColoring") /\ ~HasDanglingTarget(graph)) =>
        /\ ret.st = "ok"
        /\ LET n     == Len(graph)
               items == ret.val
               edges == (n + 1)..Len(items)
           IN  /\ GreedyNodeColors(graph, items)
               /\ Len(items) = n + Cardinality(EdgeSet(graph))
               /\ {items[k].key : k \in edges} = EdgeSet(graph)
               /\ \A k \in edges : \A i \in 1..n :
                      graph[i].key \in {items[k].key[1], items[k].key[2]} =>
                          items[k].color # items[i].color
               /\ \A k, m \in edges :
                      (/\ k # m
                       /\ {items[k].key[1], items[k].key[2]}
                              \cap {items[m].key[1], items[m].key[2]} # {}) =>
                           items[k].color # items[m].color

\* three edges between three nodes were colored, the edge of the last two
\* nodes before the edge of the first two
C30_Witness ==
    /\ Called("greedyTotalColoring")
    /\ ~HasDanglingTarget(graph)
    /\ Len(graph) = 3
    /\ ret.st = "ok"
    /\ Len(ret.val) = 6
    /\ ret.val[4].key = <<"B", "C">>
    /\ ret.val[6].key = <<"A", "B">>
    /\ ret.val[4].color # ret.val[6].color

====
